---- MODULE Spec2Model ----
(***************************************************************************)
(* Model of pontoon/sync/tasks.py: the two Celery tasks sync_project (the  *)
(* Project Sync Coordinator) and sync_project_repo (the Repository Sync    *)
(* Worker), the keyed lock that serial_task puts around each of them, the  *)
(* run ledger (ProjectSyncLog, RepositorySyncLog) and the database rows    *)
(* the tasks read and write (Project.has_changed, ChangedEntityLocale,     *)
(* Translation approval).                                                  *)
(***************************************************************************)
EXTENDS Integers, Sequences, FiniteSets, TLC

\* ------------------------------------------------------------------ bounds
\* number of sync_project invocations the task queue receives
MaxCoord == 2
\* number of sync_project_repo deliveries (a message may be delivered twice)
MaxWorkers == 2

\* number of database-side edits made by translators while syncs run
MaxEdits == 2

\* ---------------------------------------------------------- fixed database
\* SQL NULL for a timestamp column
NULL == 0

\* primary keys a caller may pass; NoProject and NoSyncLog name no row
Projects == {1, 2}
NoProject == 3
ProjectPks == Projects \cup {NoProject}
SyncLogs == {1}
NoSyncLog == 2
SyncLogPks == SyncLogs \cup {NoSyncLog}

\* db_project.repositories.all(), in queryset order
ProjectRepos(p) == IF p = 1 THEN <<1, 2>> ELSE <<>>
Repositories == {1, 2}

\* repo.locales
RepoLocales(r) == IF r = 1 THEN <<"A", "B">> ELSE <<>>
Locales == {"A", "B"}

\* base_translation rows: the columns the cleanup statement reads that the
\* tasks never change (entity, locale, plural form, entity's project)
TransIds == {1, 2, 3}
TransEntity(t) == IF t = 3 THEN 2 ELSE 1
TransLocale(t) == IF t = 3 THEN "B" ELSE "A"
TransPlural(t) == IF t = 3 THEN NULL ELSE 1
TransProject(t) == 1

\* ------------------------------------------------------------------- state
VARIABLES
  clock,             \* logical time read by timezone.now()
  locks,             \* lock keys currently held (serial_task)
  coord,             \* sync_project invocations: parameters, locals, position
  worker,            \* sync_project_repo invocations
  msgs,              \* sync_project_repo.delay(...) messages sent, in order
  project_sync_logs, \* ProjectSyncLog rows, pk = index
  repo_sync_logs,    \* RepositorySyncLog rows, pk = index
  has_changed,       \* Project.has_changed, committed
  markers,           \* ChangedEntityLocale rows, committed
  translations       \* Translation.approved / approved_date, committed

vars == <<clock, locks, coord, worker, msgs, project_sync_logs, repo_sync_logs,
          has_changed, markers, translations>>

CoordIds == 1..MaxCoord
WorkerIds == 1..MaxWorkers

\* ------------------------------------------------------------------- locks
\* the key formatted with the wrong positional argument: 'project={1}'
sync_project_lock_key_by_run(project_pk, sync_log_pk) == <<"project", sync_log_pk>>

\* the key formatted with the wrong positional argument: 'project={0},repo={2}'
sync_project_repo_lock_key_by_run(project_pk, repo_pk, project_sync_log_pk) ==
  <<"project", project_pk, "repo", project_sync_log_pk>>

\* lock_key='project={0}' formatted with the task's positional arguments
sync_project_lock_key(project_pk, sync_log_pk) == <<"project", project_pk>>

\* lock_key='project={0},repo={1}'
sync_project_repo_lock_key(project_pk, repo_pk, project_sync_log_pk) ==
  <<"project", project_pk, "repo", repo_pk>>

\* acquire(key): possible only while no holder of the key is active
LockFree(key) == key \notin locks

\* ------------------------------------------------------------ get_or_fail
\* ModelClass.objects.get(pk=...) finds a row
ProjectExists(pk) == pk \in Projects
\* the run taken as given, without the lookup of lines 40-42
SyncLogAssumed(pk) == TRUE
SyncLogExists(pk) == pk \in SyncLogs
RepositoryExists(pk) == pk \in Repositories
ProjectSyncLogExists(pk) == pk \in DOMAIN project_sync_logs

\* ------------------------------------------------------------------ Init
IdleCoord ==
  [pc |-> "idle", project_pk |-> 0, sync_log_pk |-> 0,
   no_pull |-> FALSE, no_commit |-> FALSE, force |-> FALSE,
   now |-> NULL, project_sync_log |-> 0, db_has_changed |-> FALSE,
   pulled |-> FALSE, repos_changed |-> FALSE,
   todo |-> <<>>, error |-> "none"]

\* a Translation row's mutable columns, before any approval
Unapproved == [approved |-> FALSE, approved_date |-> NULL]

\* transaction.atomic(): the statements of the open transaction, not yet
\* visible outside it (rows written, ChangedEntityLocale rows deleted, the
\* has_changed update), changeset.locales_to_commit for the locale, and the
\* database operations the block has run so far, in order
NoTx == [written |-> {}, rows |-> [t \in TransIds |-> Unapproved],
         deleted |-> {}, flag_cleared |-> FALSE, to_commit |-> FALSE,
         ops |-> <<>>]

IdleWorker ==
  [pc |-> "idle", project_pk |-> 0, repo_pk |-> 0, project_sync_log_pk |-> 0,
   now |-> NULL, no_pull |-> FALSE, no_commit |-> FALSE,
   repo_sync_log |-> 0, idx |-> 0, tx |-> NoTx,
   failed_locales |-> {}, write_back |-> "none", error |-> "none"]

\* a task that has returned or raised: its frame is gone, what stays is how
\* it ended and the run record it created
CoordEnded(c, how, err) ==
  [IdleCoord EXCEPT !.pc = how, !.error = err,
                    !.project_sync_log = coord[c].project_sync_log]

WorkerEnded(w, how, err) ==
  [IdleWorker EXCEPT !.pc = how, !.error = err,
                     !.repo_sync_log = worker[w].repo_sync_log,
                     !.idx = worker[w].idx]

Init ==
  /\ clock = 1
  /\ locks = {}
  /\ coord = [c \in CoordIds |-> IdleCoord]
  /\ worker = [w \in WorkerIds |-> IdleWorker]
  /\ msgs = <<>>
  /\ project_sync_logs = <<>>
  /\ repo_sync_logs = <<>>
  /\ has_changed = [p \in Projects |-> FALSE]
  /\ markers = {}
  /\ translations = [t \in TransIds |-> Unapproved]

\* ------------------------------------------------------- small operators
Release(key) == locks \ {key}

CoordKey(c) == sync_project_lock_key(coord[c].project_pk, coord[c].sync_log_pk)

WorkerKey(w) ==
  sync_project_repo_lock_key(worker[w].project_pk, worker[w].repo_pk,
                             worker[w].project_sync_log_pk)

\* Project.needs_sync as read by sync_project: the dirty flag of the
\* db_project instance fetched at the start of the task
needs_sync(c) == coord[c].db_has_changed

\* ------------------------------------------------ sync_project (Coordinator)
\* line 36: the arguments a caller may queue the task with
SyncProjectArgs ==
  [project_pk : ProjectPks, sync_log_pk : SyncLogPks, no_pull : BOOLEAN,
   no_commit : BOOLEAN, force : BOOLEAN]

\* the task is queued with arguments args
sync_project_delay(c, args) ==
  /\ coord[c].pc = "idle"
  /\ \A j \in CoordIds : j < c => coord[j].pc # "idle"
  /\ coord' = [coord EXCEPT ![c] =
                 [@ EXCEPT !.pc = "waiting", !.project_pk = args.project_pk,
                           !.sync_log_pk = args.sync_log_pk,
                           !.no_pull = args.no_pull,
                           !.no_commit = args.no_commit,
                           !.force = args.force]]
  /\ UNCHANGED <<clock, locks, worker, msgs, project_sync_logs, repo_sync_logs,
                 has_changed, markers, translations>>

\* serial_task acquires the lock before the body runs
sync_project_acquire(c) ==
  /\ coord[c].pc = "waiting"
  /\ LockFree(CoordKey(c))
  /\ locks' = locks \cup {CoordKey(c)}
  /\ coord' = [coord EXCEPT ![c].pc = "start"]
  /\ UNCHANGED <<clock, worker, msgs, project_sync_logs, repo_sync_logs,
                 has_changed, markers, translations>>

\* lines 38-54: resolve the project and the run, capture now, create the
\* ProjectSyncLog; a missing row raises DoesNotExist out of the task
sync_project_start(c) ==
  /\ coord[c].pc = "start"
  /\ IF ProjectExists(coord[c].project_pk) /\ SyncLogExists(coord[c].sync_log_pk)
     THEN /\ project_sync_logs' = Append(project_sync_logs,
                [sync_log |-> coord[c].sync_log_pk,
                 project |-> coord[c].project_pk,
                 start_time |-> clock, end_time |-> NULL,
                 skipped |-> FALSE, skipped_end_time |-> NULL])
          /\ coord' = [coord EXCEPT ![c] =
                [@ EXCEPT !.pc = "pull", !.now = clock,
                          !.project_sync_log = Len(project_sync_logs) + 1,
                          !.db_has_changed = has_changed[coord[c].project_pk]]]
          /\ clock' = clock + 1
          /\ UNCHANGED locks
     ELSE /\ coord' = [coord EXCEPT ![c] = CoordEnded(c, "failed", "DoesNotExist")]
          /\ locks' = Release(CoordKey(c))
          /\ UNCHANGED <<clock, project_sync_logs>>
  /\ UNCHANGED <<worker, msgs, repo_sync_logs, has_changed, markers, translations>>

\* lines 56-59: pull_changes reports whether the working trees changed;
\* with no_pull they are assumed changed
sync_project_pull(c) ==
  /\ coord[c].pc = "pull"
  /\ IF ~coord[c].no_pull
     THEN \E changed \in BOOLEAN :
            coord' = [coord EXCEPT ![c] =
                [@ EXCEPT !.pc = "decide", !.pulled = TRUE,
                          !.repos_changed = changed]]
     ELSE coord' = [coord EXCEPT ![c] =
                [@ EXCEPT !.pc = "decide", !.repos_changed = TRUE]]
  /\ UNCHANGED <<clock, locks, worker, msgs, project_sync_logs, repo_sync_logs,
                 has_changed, markers, translations>>

\* line 63 without "not force"
SkipConditionIgnoringForce(c) ==
  ~coord[c].repos_changed /\ ~needs_sync(c)

\* line 63
SkipCondition(c) ==
  ~coord[c].force /\ ~coord[c].repos_changed /\ ~needs_sync(c)

\* lines 63-70 without the return of line 70: the skip is recorded and the
\* task goes on
sync_project_decide_without_return(c) ==
  /\ coord[c].pc = "decide"
  /\ IF SkipCondition(c)
     THEN project_sync_logs' =
               [project_sync_logs EXCEPT ![coord[c].project_sync_log] =
                  [@ EXCEPT !.skipped = TRUE, !.skipped_end_time = clock]]
     ELSE UNCHANGED project_sync_logs
  /\ coord' = [coord EXCEPT ![c] =
                [@ EXCEPT !.pc = "sync", !.force = FALSE, !.pulled = FALSE,
                          !.repos_changed = FALSE, !.db_has_changed = FALSE]]
  /\ UNCHANGED <<clock, locks, worker, msgs, repo_sync_logs, has_changed,
                 markers, translations>>

\* lines 63-70 with line 67 assigning to start_time
sync_project_decide_stamping_start_time(c) ==
  /\ coord[c].pc = "decide"
  /\ IF SkipCondition(c)
     THEN /\ project_sync_logs' =
               [project_sync_logs EXCEPT ![coord[c].project_sync_log] =
                  [@ EXCEPT !.skipped = TRUE, !.start_time = clock]]
          /\ coord' = [coord EXCEPT ![c] = CoordEnded(c, "done", "none")]
          /\ locks' = Release(CoordKey(c))
     ELSE /\ coord' = [coord EXCEPT ![c] =
                [@ EXCEPT !.pc = "sync", !.force = FALSE, !.pulled = FALSE,
                          !.repos_changed = FALSE, !.db_has_changed = FALSE]]
          /\ UNCHANGED <<project_sync_logs, locks>>
  /\ UNCHANGED <<clock, worker, msgs, repo_sync_logs, has_changed,
                 markers, translations>>

\* lines 63-70: quit early, recording the skip, or go on; force,
\* repos_changed and the fetched dirty flag are not read after line 63
sync_project_decide(c) ==
  /\ coord[c].pc = "decide"
  /\ IF SkipCondition(c)
     THEN /\ project_sync_logs' =
               [project_sync_logs EXCEPT ![coord[c].project_sync_log] =
                  [@ EXCEPT !.skipped = TRUE, !.skipped_end_time = clock]]
          /\ coord' = [coord EXCEPT ![c] = CoordEnded(c, "done", "none")]
          /\ locks' = Release(CoordKey(c))
     ELSE /\ coord' = [coord EXCEPT ![c] =
                [@ EXCEPT !.pc = "sync", !.force = FALSE, !.pulled = FALSE,
                          !.repos_changed = FALSE, !.db_has_changed = FALSE]]
          /\ UNCHANGED <<project_sync_logs, locks>>
  /\ UNCHANGED <<clock, worker, msgs, repo_sync_logs, has_changed, markers,
                 translations>>

\* line 72: perform_sync_project(db_project, now)
sync_project_perform(c) ==
  /\ coord[c].pc = "sync"
  /\ coord' = [coord EXCEPT ![c] =
        [@ EXCEPT !.pc = "dispatch",
                  !.todo = ProjectRepos(coord[c].project_pk)]]
  /\ UNCHANGED <<clock, locks, worker, msgs, project_sync_logs, repo_sync_logs,
                 has_changed, markers, translations>>

\* the message with timezone.now() taken again instead of the captured now
DelayMessageWithFreshNow(c, repo) ==
  [project_pk |-> coord[c].project_pk,
   repo_pk |-> repo,
   project_sync_log_pk |-> coord[c].project_sync_log,
   now |-> clock,
   no_pull |-> coord[c].no_pull,
   no_commit |-> coord[c].no_commit]

\* lines 74-81: the message one loop iteration sends
DelayMessage(c, repo) ==
  [project_pk |-> coord[c].project_pk,
   repo_pk |-> repo,
   project_sync_log_pk |-> coord[c].project_sync_log,
   now |-> coord[c].now,
   no_pull |-> coord[c].no_pull,
   no_commit |-> coord[c].no_commit]

\* lines 73-81: one iteration of the loop over the project's repositories
sync_project_dispatch(c) ==
  /\ coord[c].pc = "dispatch"
  /\ coord[c].todo # <<>>
  /\ msgs' = Append(msgs, DelayMessage(c, Head(coord[c].todo)))
  /\ coord' = [coord EXCEPT ![c].todo = Tail(@)]
  /\ UNCHANGED <<clock, locks, worker, project_sync_logs, repo_sync_logs,
                 has_changed, markers, translations>>

\* line 83: the loop is over, the task returns and its lock is released
sync_project_return(c) ==
  /\ coord[c].pc = "dispatch"
  /\ coord[c].todo = <<>>
  /\ coord' = [coord EXCEPT ![c] = CoordEnded(c, "done", "none")]
  /\ locks' = Release(CoordKey(c))
  /\ UNCHANGED <<clock, worker, msgs, project_sync_logs, repo_sync_logs,
                 has_changed, markers, translations>>

sync_project(c) ==
  \/ sync_project_acquire(c)
  \/ sync_project_start(c)
  \/ sync_project_pull(c)
  \/ sync_project_decide(c)
  \/ sync_project_perform(c)
  \/ sync_project_dispatch(c)
  \/ sync_project_return(c)

\* --------------------------------------------- sync_project_repo (Worker)
WorkerLocales(w) == RepoLocales(worker[w].repo_pk)
WorkerLocale(w) == WorkerLocales(w)[worker[w].idx]

\* what the statements of w's open transaction read: committed rows
\* overlaid with the transaction's own writes
TxView(w) ==
  [t \in TransIds |-> IF t \in worker[w].tx.written THEN worker[w].tx.rows[t]
                      ELSE translations[t]]

\* the broker delivers a message (again, possibly) to a free worker slot
sync_project_repo_deliver(w) ==
  /\ worker[w].pc = "idle"
  /\ \A j \in WorkerIds : j < w => worker[j].pc # "idle"
  /\ \E i \in DOMAIN msgs :
       worker' = [worker EXCEPT ![w] =
          [@ EXCEPT !.pc = "waiting",
                    !.project_pk = msgs[i].project_pk,
                    !.repo_pk = msgs[i].repo_pk,
                    !.project_sync_log_pk = msgs[i].project_sync_log_pk,
                    !.now = msgs[i].now,
                    !.no_pull = msgs[i].no_pull,
                    !.no_commit = msgs[i].no_commit]]
  /\ UNCHANGED <<clock, locks, coord, msgs, project_sync_logs, repo_sync_logs,
                 has_changed, markers, translations>>

\* lines 87-88: the arguments a direct caller may give the task: any
\* project, any repository (3 is no Repository row), any ProjectSyncLog pk
NoRepository == 3
SyncProjectRepoArgs ==
  [project_pk : ProjectPks, repo_pk : Repositories \cup {NoRepository},
   project_sync_log_pk : 1..2, now : {1}, no_pull : {FALSE},
   no_commit : {TRUE}]

\* the task is called directly with arguments args
sync_project_repo_call(w, args) ==
  /\ worker[w].pc = "idle"
  /\ \A j \in WorkerIds : j < w => worker[j].pc # "idle"
  /\ worker' = [worker EXCEPT ![w] =
        [@ EXCEPT !.pc = "waiting",
                  !.project_pk = args.project_pk,
                  !.repo_pk = args.repo_pk,
                  !.project_sync_log_pk = args.project_sync_log_pk,
                  !.now = args.now,
                  !.no_pull = args.no_pull,
                  !.no_commit = args.no_commit]]
  /\ UNCHANGED <<clock, locks, coord, msgs, project_sync_logs, repo_sync_logs,
                 has_changed, markers, translations>>

sync_project_repo_acquire(w) ==
  /\ worker[w].pc = "waiting"
  /\ LockFree(WorkerKey(w))
  /\ locks' = locks \cup {WorkerKey(w)}
  /\ worker' = [worker EXCEPT ![w].pc = "start"]
  /\ UNCHANGED <<clock, coord, msgs, project_sync_logs, repo_sync_logs,
                 has_changed, markers, translations>>

\* lines 89-113 without lines 111-112
sync_project_repo_start_without_end_time(w) ==
  /\ worker[w].pc = "start"
  /\ IF /\ ProjectExists(worker[w].project_pk)
        /\ RepositoryExists(worker[w].repo_pk)
        /\ ProjectSyncLogExists(worker[w].project_sync_log_pk)
     THEN IF Len(WorkerLocales(w)) < 1
          THEN /\ repo_sync_logs' = Append(repo_sync_logs,
                     [project_sync_log |-> worker[w].project_sync_log_pk,
                      repository |-> worker[w].repo_pk,
                      start_time |-> clock, end_time |-> NULL])
               /\ worker' = [worker EXCEPT ![w] =
                     [WorkerEnded(w, "done", "none") EXCEPT
                        !.repo_sync_log = Len(repo_sync_logs) + 1]]
               /\ locks' = Release(WorkerKey(w))
          ELSE /\ repo_sync_logs' = Append(repo_sync_logs,
                     [project_sync_log |-> worker[w].project_sync_log_pk,
                      repository |-> worker[w].repo_pk,
                      start_time |-> clock, end_time |-> NULL])
               /\ worker' = [worker EXCEPT ![w] =
                     [@ EXCEPT !.pc = "merge", !.idx = 1,
                               !.repo_sync_log = Len(repo_sync_logs) + 1]]
               /\ UNCHANGED locks
     ELSE /\ worker' = [worker EXCEPT ![w] = WorkerEnded(w, "failed", "DoesNotExist")]
          /\ locks' = Release(WorkerKey(w))
          /\ UNCHANGED repo_sync_logs
  /\ UNCHANGED <<clock, coord, msgs, project_sync_logs, has_changed, markers,
                 translations>>

\* lines 89-113: resolve project, repository and ProjectSyncLog, create the
\* RepositorySyncLog, pull, and return at once from a repository without
\* locales
sync_project_repo_start(w) ==
  /\ worker[w].pc = "start"
  /\ IF /\ ProjectExists(worker[w].project_pk)
        /\ RepositoryExists(worker[w].repo_pk)
        /\ ProjectSyncLogExists(worker[w].project_sync_log_pk)
     THEN IF Len(WorkerLocales(w)) < 1
          THEN /\ repo_sync_logs' = Append(repo_sync_logs,
                     [project_sync_log |-> worker[w].project_sync_log_pk,
                      repository |-> worker[w].repo_pk,
                      start_time |-> clock, end_time |-> clock])
               /\ worker' = [worker EXCEPT ![w] =
                     [WorkerEnded(w, "done", "none") EXCEPT
                        !.repo_sync_log = Len(repo_sync_logs) + 1]]
               /\ locks' = Release(WorkerKey(w))
          ELSE /\ repo_sync_logs' = Append(repo_sync_logs,
                     [project_sync_log |-> worker[w].project_sync_log_pk,
                      repository |-> worker[w].repo_pk,
                      start_time |-> clock, end_time |-> NULL])
               /\ worker' = [worker EXCEPT ![w] =
                     [@ EXCEPT !.pc = "merge", !.idx = 1,
                               !.repo_sync_log = Len(repo_sync_logs) + 1]]
               /\ UNCHANGED locks
     ELSE /\ worker' = [worker EXCEPT ![w] = WorkerEnded(w, "failed", "DoesNotExist")]
          /\ locks' = Release(WorkerKey(w))
          /\ UNCHANGED repo_sync_logs
  /\ UNCHANGED <<clock, coord, msgs, project_sync_logs, has_changed, markers,
                 translations>>

\* the exception caught around the loop: the task goes on to line 174
CaughtAroundLoop(w) ==
  /\ worker' = [worker EXCEPT ![w] =
        [@ EXCEPT !.pc = "finish", !.tx = NoTx, !.error = "Exception"]]
  /\ UNCHANGED locks

\* the exception leaving the task with its lock still held
PropagateHoldingLock(w) ==
  /\ worker' = [worker EXCEPT ![w] = WorkerEnded(w, "failed", "Exception")]
  /\ UNCHANGED locks

\* an exception that the except clause of line 163 does not catch leaves the
\* atomic block (rollback), the loop and the task; the lock is released
Propagate(w) ==
  /\ worker' = [worker EXCEPT ![w] = WorkerEnded(w, "failed", "Exception")]
  /\ locks' = Release(WorkerKey(w))

\* rows of the project and locale
InScope(t, locale, project) == TransLocale(t) = locale /\ TransProject(t) = project

\* lines 119-123: the Changeset's database edits for the locale: the merge
\* approves the translation found in the working tree, dated now
ChangesetRows(w, edit) ==
  [t \in TransIds |-> IF t = edit
                      THEN [approved |-> TRUE, approved_date |-> worker[w].now]
                      ELSE worker[w].tx.rows[t]]

\* the statistics updated before the Changeset is executed
ChangesetOpsStatsFirst == <<"update_translations", "update_project_stats", "execute">>

\* lines 120-123, in the order of the calls
ChangesetOps == <<"update_translations", "execute", "update_project_stats">>

\* lines 118-123: ChangeSet, update_translations, changeset.execute,
\* update_project_stats inside the new transaction
sync_project_repo_merge(w) ==
  /\ worker[w].pc = "merge"
  /\ \/ \E edit \in {t \in TransIds :
                       InScope(t, WorkerLocale(w), worker[w].project_pk)},
           vcs \in BOOLEAN :
          /\ worker' = [worker EXCEPT ![w] =
                [@ EXCEPT !.pc = "clear", !.write_back = "none",
                          !.tx = [NoTx EXCEPT !.ops = ChangesetOps,
                                              !.written = {edit},
                                              !.rows = ChangesetRows(w, edit),
                                              !.to_commit = vcs]]]
          /\ UNCHANGED locks
     \/ \E vcs \in BOOLEAN :
          /\ worker' = [worker EXCEPT ![w] =
                [@ EXCEPT !.pc = "clear", !.write_back = "none",
                          !.tx = [NoTx EXCEPT !.ops = ChangesetOps,
                                              !.to_commit = vcs]]]
          /\ UNCHANGED locks
     \/ Propagate(w)
  /\ UNCHANGED <<clock, coord, msgs, project_sync_logs, repo_sync_logs,
                 has_changed, markers, translations>>

\* the filter written when__lt=now
MarkersBeforeNow(project, locale, now) ==
  {m \in markers : m.project = project /\ m.locale = locale /\ m.when < now}

\* lines 127-131: the ChangedEntityLocale rows the delete statement matches
MarkersToDelete(project, locale, now) ==
  {m \in markers : m.project = project /\ m.locale = locale /\ m.when <= now}

\* lines 127-133
sync_project_repo_clear(w) ==
  /\ worker[w].pc = "clear"
  /\ worker' = [worker EXCEPT ![w] =
        [@ EXCEPT !.pc = "cleanup",
                  !.tx = [@ EXCEPT !.deleted = MarkersToDelete(
                                       worker[w].project_pk, WorkerLocale(w),
                                       worker[w].now),
                                   !.flag_cleared = TRUE,
                                   !.ops = @ \o <<"delete_markers", "clear_flag">>]]]
  /\ UNCHANGED <<clock, locks, coord, msgs, project_sync_logs, repo_sync_logs,
                 has_changed, markers, translations>>

\* SQL '=' on nullable columns: true only for two equal non-NULL values
SqlEq(x, y) == x # NULL /\ y # NULL /\ x = y

\* lines 149-153: the correlated subquery, over every base_translation row
GroupOf(b) ==
  {t \in TransIds : /\ TransEntity(t) = TransEntity(b)
                    /\ TransLocale(t) = TransLocale(b)
                    /\ (SqlEq(TransPlural(t), TransPlural(b))
                        \/ TransPlural(t) = NULL)}

\* max(approved_date) ignores NULLs and is NULL when nothing is left
MaxApprovedDate(view, b) ==
  LET dates == {view[t].approved_date : t \in GroupOf(b)} \ {NULL}
  IN IF dates = {} THEN NULL
     ELSE CHOOSE m \in dates : \A d \in dates : d <= m

\* lines 139-153: the WHERE clause; a comparison with NULL selects nothing
Demoted(view, b, locale, project) ==
  /\ InScope(b, locale, project)
  /\ view[b].approved_date # NULL
  /\ MaxApprovedDate(view, b) # NULL
  /\ view[b].approved_date # MaxApprovedDate(view, b)

\* lines 137-157: the UPDATE
DuplicateApprovalCleanup(view, locale, project) ==
  [t \in TransIds |-> IF Demoted(view, t, locale, project)
                      THEN [approved |-> FALSE, approved_date |-> NULL]
                      ELSE view[t]]

sync_project_repo_cleanup(w) ==
  /\ worker[w].pc = "cleanup"
  /\ LET view == TxView(w)
         after == DuplicateApprovalCleanup(view, WorkerLocale(w),
                                           worker[w].project_pk)
         hit == {t \in TransIds : after[t] # view[t]}
     IN worker' = [worker EXCEPT ![w] =
          [@ EXCEPT !.pc = "commit",
                    !.tx = [@ EXCEPT !.ops = Append(@, "cleanup"),
                                     !.written = @ \cup hit,
                                     !.rows = [t \in TransIds |->
                                       IF t \in hit THEN after[t]
                                       ELSE worker[w].tx.rows[t]]]]]
  /\ UNCHANGED <<clock, locks, coord, msgs, project_sync_logs, repo_sync_logs,
                 has_changed, markers, translations>>

\* line 161 without "not no_commit"
WritesBackIgnoringNoCommit(w) == worker[w].tx.to_commit

\* line 161
WritesBack(w) == ~worker[w].no_commit /\ worker[w].tx.to_commit

\* the block left normally with the transaction's writes discarded
AtomicExitDiscards(w) == UNCHANGED <<translations, markers, has_changed>>

\* leaving the atomic block normally: the transaction commits
CommitTransaction(w) ==
  /\ translations' = TxView(w)
  /\ markers' = markers \ worker[w].tx.deleted
  /\ has_changed' = IF worker[w].tx.flag_cleared
                    THEN [has_changed EXCEPT ![worker[w].project_pk] = FALSE]
                    ELSE has_changed

\* the exception caught inside the atomic block: the block is left normally
CaughtInsideAtomic(w) == CommitTransaction(w)

\* leaving the atomic block by an exception: the transaction rolls back
RollbackTransaction(w) == UNCHANGED <<translations, markers, has_changed>>

\* line 116: the loop goes on to the next locale, or ends; write_back is how
\* the commit_changes call of the block just left went ("none": not called)
NextLocale(w, failed, outcome) ==
  worker' = [worker EXCEPT ![w] =
     [@ EXCEPT !.pc = IF worker[w].idx < Len(WorkerLocales(w)) THEN "merge"
                      ELSE "finish",
               !.idx = IF worker[w].idx < Len(WorkerLocales(w)) THEN @ + 1 ELSE @,
               !.tx = NoTx,
               !.failed_locales = @ \cup failed,
               !.write_back = outcome]]

\* lines 161-172: the write-back and the end of the atomic block
sync_project_repo_commit(w) ==
  /\ worker[w].pc = "commit"
  /\ IF WritesBack(w)
     THEN \/ /\ CommitTransaction(w)
             /\ NextLocale(w, {}, "returned")
             /\ UNCHANGED locks
          \/ /\ RollbackTransaction(w)
             /\ NextLocale(w, {WorkerLocale(w)}, "raised")
             /\ UNCHANGED locks
          \/ /\ RollbackTransaction(w)
             /\ Propagate(w)
     ELSE /\ CommitTransaction(w)
          /\ NextLocale(w, {}, "none")
          /\ UNCHANGED locks
  /\ UNCHANGED <<clock, coord, msgs, project_sync_logs, repo_sync_logs>>

\* lines 174-178
sync_project_repo_finish(w) ==
  /\ worker[w].pc = "finish"
  /\ repo_sync_logs' = [repo_sync_logs EXCEPT
                          ![worker[w].repo_sync_log].end_time = clock]
  /\ worker' = [worker EXCEPT ![w] = WorkerEnded(w, "done", "none")]
  /\ locks' = Release(WorkerKey(w))
  /\ UNCHANGED <<clock, coord, msgs, project_sync_logs, has_changed, markers,
                 translations>>

sync_project_repo(w) ==
  \/ sync_project_repo_deliver(w)
  \/ sync_project_repo_acquire(w)
  \/ sync_project_repo_start(w)
  \/ sync_project_repo_merge(w)
  \/ sync_project_repo_clear(w)
  \/ sync_project_repo_cleanup(w)
  \/ sync_project_repo_commit(w)
  \/ sync_project_repo_finish(w)

\* ------------------------------------------------------------ translators
\* the UPDATE of line 133 holds the project's row until the transaction
\* ends: another writer of that row waits
ProjectRowLocked(p) ==
  \E w \in WorkerIds : worker[w].project_pk = p /\ worker[w].tx.flag_cleared

\* a database-side edit of a translation of project p in locale l: the row
\* the delete of lines 127-131 looks for, and the project's dirty flag
mark_changed(p, l) ==
  /\ Cardinality(markers) < MaxEdits
  /\ ~ProjectRowLocked(p)
  /\ [project |-> p, locale |-> l, when |-> clock] \notin markers
  /\ markers' = markers \cup {[project |-> p, locale |-> l, when |-> clock]}
  /\ has_changed' = [has_changed EXCEPT ![p] = TRUE]
  /\ UNCHANGED <<clock, locks, coord, worker, msgs, project_sync_logs,
                 repo_sync_logs, translations>>

\* ------------------------------------------------------- specifications
\* The task queue: sync_project invocations for existing projects and runs,
\* pulling and committing, forced or not, and the sync_project_repo
\* deliveries they cause.
QueueArgs ==
  {a \in SyncProjectArgs : /\ ProjectExists(a.project_pk)
                           /\ SyncLogExists(a.sync_log_pk)
                           /\ ~a.no_pull /\ ~a.no_commit}

Next ==
  \/ \E c \in CoordIds, a \in QueueArgs : sync_project_delay(c, a)
  \/ \E c \in CoordIds : sync_project(c)
  \/ \E w \in WorkerIds : sync_project_repo(w)

Spec == Init /\ [][Next]_vars

\* sync_project alone, queued with any arguments, while translators edit.
NextCoordinator ==
  \/ \E c \in CoordIds, a \in SyncProjectArgs : sync_project_delay(c, a)
  \/ \E c \in CoordIds : sync_project(c)
  \/ \E p \in Projects, l \in Locales : mark_changed(p, l)

SpecCoordinator == Init /\ [][NextCoordinator]_vars

\* One run of project 1: sync_project queued once, its sync_project_repo
\* messages delivered to one worker, translators editing meanwhile.
RunArgs == {a \in SyncProjectArgs : a.project_pk = 1 /\ SyncLogExists(a.sync_log_pk)}

NextRun ==
  \/ \E a \in RunArgs : sync_project_delay(1, a)
  \/ sync_project(1)
  \/ sync_project_repo(1)
  \/ \E p \in Projects, l \in Locales : mark_changed(p, l)

SpecRun == Init /\ [][NextRun]_vars

\* Lookups: sync_project queued with any project and run, and
\* sync_project_repo called with any project, repository and ProjectSyncLog,
\* whether the rows exist or not.
LookupArgs == {a \in SyncProjectArgs : ~a.no_pull /\ ~a.no_commit /\ a.force}

NextLookup ==
  \/ \E a \in LookupArgs : sync_project_delay(1, a)
  \/ sync_project(1)
  \/ \E w \in WorkerIds, a \in SyncProjectRepoArgs : sync_project_repo_call(w, a)
  \/ \E w \in WorkerIds : sync_project_repo(w)

SpecLookup == Init /\ [][NextLookup]_vars

\* The task queue under fair scheduling: a task that can take its next step
\* (acquire a free lock, run a statement, return) eventually takes it.
LiveArgs ==
  {a \in SyncProjectArgs : /\ a.project_pk = 1 /\ ~a.no_pull /\ a.no_commit
                           /\ ~a.force}

NextLive ==
  \/ \E c \in CoordIds, a \in LiveArgs : sync_project_delay(c, a)
  \/ \E c \in CoordIds : sync_project(c)
  \/ \E w \in WorkerIds : sync_project_repo(w)

Fairness ==
  /\ \A c \in CoordIds : WF_vars(sync_project(c))
  /\ \A w \in WorkerIds : WF_vars(sync_project_repo(w))

SpecLive == Init /\ [][NextLive]_vars /\ Fairness

\* ----------------------------------------------------------------- claims
InBody(c) == coord[c].pc \in {"start", "pull", "decide", "sync", "dispatch"}

InWorkerBody(w) ==
  worker[w].pc \in {"start", "merge", "clear", "cleanup", "commit", "finish"}

\* C1: at most one sync_project invocation per project is past lock
\* acquisition (executing its body) at any time; invocations in their bodies
\* at the same time are for different projects.
C1_CoordinatorExclusion ==
  \A c1 \in CoordIds, c2 \in CoordIds :
    (c1 # c2 /\ InBody(c1) /\ InBody(c2))
      => coord[c1].project_pk # coord[c2].project_pk

\* a second invocation for the project waits while the first is in its body
C1_Witness ==
  \E c1 \in CoordIds, c2 \in CoordIds :
    /\ InBody(c1) /\ coord[c1].pc = "dispatch"
    /\ coord[c2].pc = "waiting"
    /\ coord[c1].project_pk = coord[c2].project_pk

\* C2: at most one sync_project_repo invocation per (project, repository)
\* is executing its body at any time, whichever sync_project invocation
\* dispatched it and however often its message was delivered.
C2_WorkerExclusion ==
  \A w1 \in WorkerIds, w2 \in WorkerIds :
    (w1 # w2 /\ InWorkerBody(w1) /\ InWorkerBody(w2))
      => \/ worker[w1].project_pk # worker[w2].project_pk
         \/ worker[w1].repo_pk # worker[w2].repo_pk

\* an invocation dispatched by another sync_project run waits while the
\* first is inside a locale's transaction
C2_Witness ==
  \E w1 \in WorkerIds, w2 \in WorkerIds :
    /\ worker[w1].pc = "cleanup"
    /\ worker[w2].pc = "waiting"
    /\ worker[w1].project_pk = worker[w2].project_pk
    /\ worker[w1].repo_pk = worker[w2].repo_pk
    /\ worker[w1].project_sync_log_pk # worker[w2].project_sync_log_pk

\* the step that ends a locale's atomic block and goes on with the loop
LocaleEnds(w) == worker[w].pc = "commit" /\ worker'[w].pc \in {"merge", "finish"}

\* ... after CommitToRepositoryException was caught and logged (line 163)
LocaleFailed(w) == LocaleEnds(w) /\ WorkerLocale(w) \in worker'[w].failed_locales

\* ... with the transaction committed
LocaleCommitted(w) == LocaleEnds(w) /\ WorkerLocale(w) \notin worker'[w].failed_locales

DatabaseUnchanged == UNCHANGED <<translations, markers, has_changed>>

\* C3: a locale whose write-back raises CommitToRepositoryException leaves
\* every Translation, Dirty Marker and the dirty flag as they were (nothing
\* written inside its transaction is ever visible), and the loop goes on; a
\* locale that does not fail has the rows of its transaction persisted and
\* its markers up to now deleted, and touches no row or marker of another
\* locale. Steps inside a transaction change nothing that is committed.
C3_PartialFailureIsolation ==
  [][\A w \in WorkerIds :
       /\ LocaleFailed(w) => DatabaseUnchanged
       /\ LocaleCommitted(w) =>
            /\ \A t \in TransIds :
                 translations'[t] =
                   IF InScope(t, WorkerLocale(w), worker[w].project_pk)
                   THEN TxView(w)[t] ELSE translations[t]
            /\ \A m \in markers :
                 (m.project = worker[w].project_pk /\ m.locale = WorkerLocale(w)
                    /\ m.when <= worker[w].now) => m \notin markers'
            /\ \A m \in markers :
                 m.locale # WorkerLocale(w) => m \in markers'
       /\ (worker[w].pc \in {"merge", "clear", "cleanup"}
             /\ worker'[w] # worker[w]) => DatabaseUnchanged
    ]_vars

\* locale A failed and kept its marker and its unapproved rows; locale B
\* committed the approval its Changeset made and cleared the dirty flag
C3_Witness ==
  \E w \in WorkerIds :
    /\ worker[w].pc = "finish"
    /\ worker[w].failed_locales = {"A"}
    /\ \E m \in markers : m.project = 1 /\ m.locale = "A" /\ m.when <= worker[w].now
    /\ ~translations[1].approved /\ ~translations[2].approved
    /\ translations[3] = [approved |-> TRUE, approved_date |-> worker[w].now]
    /\ ~\E m \in markers : m.locale = "B"
    /\ ~has_changed[1]

\* C4 (as claimed): once a worker has gone through its locales, a cleared
\* dirty flag means that no Dirty Marker of the project dated at or before
\* the run's reference time is left, for any locale.
C4_ClearedFlagMeansNoMarkers ==
  \A w \in WorkerIds :
    (worker[w].pc = "finish" /\ ~has_changed[worker[w].project_pk])
      => ~\E m \in markers :
            m.project = worker[w].project_pk /\ m.when <= worker[w].now

\* C6: the commit of a locale's transaction removes exactly the Dirty
\* Markers of that project and locale dated at or before now, and no other.
C6_MarkerConsumption ==
  [][\A w \in WorkerIds :
       LocaleCommitted(w) =>
         markers' = {m \in markers :
                       ~(/\ m.project = worker[w].project_pk
                         /\ m.locale = WorkerLocale(w)
                         /\ m.when <= worker[w].now)}
    ]_vars

\* a marker dated exactly now is matched by the delete while a later marker
\* of the same project and locale is left
C6_Witness ==
  \E w \in WorkerIds :
    /\ worker[w].pc = "commit"
    /\ ~WritesBack(w)
    /\ \E m \in worker[w].tx.deleted : m.when = worker[w].now /\ m \in markers
    /\ \E m \in markers :
         /\ m.project = worker[w].project_pk
         /\ m.locale = WorkerLocale(w)
         /\ m.when > worker[w].now

\* the group of the claim: same entity, same locale, same plural form, rows
\* without a plural form together
ApprovalGroup(t) ==
  {u \in TransIds : /\ TransEntity(u) = TransEntity(t)
                    /\ TransLocale(u) = TransLocale(t)
                    /\ TransPlural(u) = TransPlural(t)}

\* C5 (as claimed): after a locale's transaction has committed, every group
\* of the project's Translations for the locale holds at most one approved
\* Translation, and that one has the greatest approval timestamp of the group.
C5_SingleApprovalPerGroup ==
  [][\A w \in WorkerIds :
       LocaleCommitted(w) =>
         \A t \in TransIds :
           (InScope(t, WorkerLocale(w), worker[w].project_pk)
              /\ translations'[t].approved)
             => \A u \in ApprovalGroup(t) \ {t} :
                  /\ ~translations'[u].approved
                  /\ translations'[u].approved_date <= translations'[t].approved_date
    ]_vars

\* the step in which invocation c evaluates line 63
Decides(c) == coord[c].pc = "decide" /\ coord'[c].pc # "decide"

\* C7: a sync_project invocation that resolved its project and run is
\* recorded as skipped (flag and skip time) exactly when force is unset, the
\* pull was performed and reported no change, and the project's dirty flag
\* was false; a skipped invocation ends there.
C7_SkipDecision ==
  [][\A c \in CoordIds :
       Decides(c) =>
         LET log == project_sync_logs'[coord[c].project_sync_log]
         IN /\ log.skipped <=> (/\ ~coord[c].force
                                /\ coord[c].pulled
                                /\ ~coord[c].repos_changed
                                /\ ~coord[c].db_has_changed)
            /\ log.skipped => (log.skipped_end_time # NULL /\ coord'[c].pc = "done")
            /\ ~log.skipped => (log.skipped_end_time = NULL /\ coord'[c].pc = "sync")
            /\ (coord[c].force \/ coord[c].no_pull) => ~log.skipped
    ]_vars

\* an unforced pulling invocation of a clean project was skipped, after a
\* forced one was not
C7_Witness ==
  \E c1 \in CoordIds, c2 \in CoordIds :
    /\ coord[c1].pc = "dispatch"
    /\ ~project_sync_logs[coord[c1].project_sync_log].skipped
    /\ coord[c2].pc = "done"
    /\ coord[c2].project_sync_log # 0
    /\ project_sync_logs[coord[c2].project_sync_log].skipped

SkippedRunHasNoEffect ==
  \A i \in DOMAIN project_sync_logs :
    project_sync_logs[i].skipped =>
      /\ project_sync_logs[i].skipped_end_time # NULL
      /\ \A k \in DOMAIN msgs : msgs[k].project_sync_log_pk # i
      /\ \A r \in DOMAIN repo_sync_logs : repo_sync_logs[r].project_sync_log # i
      /\ \A c \in CoordIds : coord[c].project_sync_log = i => coord[c].pc = "done"

SkipStepFrame ==
  \A c \in CoordIds :
    Decides(c) =>
      LET i == coord[c].project_sync_log
      IN /\ (~coord[c].force /\ ~coord[c].repos_changed /\ ~coord[c].db_has_changed)
              => project_sync_logs'[i].skipped
         /\ project_sync_logs'[i].skipped =>
              /\ DatabaseUnchanged
              /\ UNCHANGED <<msgs, repo_sync_logs, worker>>
              /\ project_sync_logs' =
                   [project_sync_logs EXCEPT ![i] =
                      [@ EXCEPT !.skipped = TRUE,
                                !.skipped_end_time = project_sync_logs'[i].skipped_end_time]]

\* C8: with no working-tree change and no dirty state every unforced
\* sync_project invocation is recorded as skipped, however many came before;
\* the skipping step changes nothing but its own ProjectSyncLog (skipped,
\* skipped_end_time), and a skipped run never reaches the project-wide merge,
\* sends no sync_project_repo message and owns no RepositorySyncLog.
C8_SkippedRunIsInert == [](SkippedRunHasNoEffect) /\ [][SkipStepFrame]_vars

\* two invocations for project 1, one after the other, both skipped
C8_Witness ==
  /\ Len(project_sync_logs) = 2
  /\ \A i \in DOMAIN project_sync_logs :
       project_sync_logs[i].skipped /\ project_sync_logs[i].project = 1
  /\ \A c \in CoordIds : coord[c].pc = "done"

\* the messages sent for ProjectSyncLog i
MessagesOf(i) == {k \in DOMAIN msgs : msgs[k].project_sync_log_pk = i}

FanOutComplete ==
  \A c \in CoordIds :
    (coord[c].pc = "done" /\ coord[c].project_sync_log # 0
       /\ ~project_sync_logs[coord[c].project_sync_log].skipped) =>
      LET i == coord[c].project_sync_log
          repos == ProjectRepos(project_sync_logs[i].project)
      IN /\ Cardinality(MessagesOf(i)) = Len(repos)
         /\ \A j \in DOMAIN repos : \E k \in MessagesOf(i) : msgs[k].repo_pk = repos[j]
         /\ \A k \in MessagesOf(i) :
              /\ msgs[k].now = project_sync_logs[i].start_time
              /\ msgs[k].project_pk = project_sync_logs[i].project

FanOutCarriesArguments ==
  \A c \in CoordIds :
    (coord[c].pc = "dispatch" /\ coord'[c].pc = "done") =>
      \A k \in MessagesOf(coord[c].project_sync_log) :
        /\ msgs'[k].now = coord[c].now
        /\ msgs'[k].no_pull = coord[c].no_pull
        /\ msgs'[k].no_commit = coord[c].no_commit
        /\ msgs'[k].project_sync_log_pk = coord[c].project_sync_log

\* C9: a sync_project invocation that was not skipped has sent, when it
\* returns, exactly one sync_project_repo message per repository of its
\* project, each with the now captured at its start (the ProjectSyncLog's
\* start_time), its ProjectSyncLog and its no_pull and no_commit.
C9_FanOut == [](FanOutComplete) /\ [][FanOutCarriesArguments]_vars

\* a run of project 1 with no_pull and no_commit set returned with its two
\* messages sent
C9_Witness ==
  \E c \in CoordIds :
    /\ coord[c].pc = "done" /\ coord[c].project_sync_log # 0
    /\ Cardinality(MessagesOf(coord[c].project_sync_log)) = 2
    /\ \A k \in MessagesOf(coord[c].project_sync_log) :
         msgs[k].no_pull /\ msgs[k].no_commit

WorkerEndStates ==
  \A w \in WorkerIds :
    /\ (worker[w].pc = "failed" /\ worker[w].error = "Exception") =>
         repo_sync_logs[worker[w].repo_sync_log].end_time = NULL
    /\ worker[w].pc = "finish" =>
         (worker[w].idx = Len(WorkerLocales(w)) /\ worker[w].error = "none")
    /\ (worker[w].pc = "done") =>
         /\ repo_sync_logs[worker[w].repo_sync_log].end_time # NULL
         /\ worker[w].idx =
              Len(RepoLocales(repo_sync_logs[worker[w].repo_sync_log].repository))

WorkerFailureSteps ==
  /\ \A w \in WorkerIds :
       /\ (worker[w].pc \in {"merge", "clear", "cleanup", "commit"}
             /\ worker'[w].pc = "failed") =>
            (DatabaseUnchanged /\ worker'[w].idx = worker[w].idx
               /\ UNCHANGED repo_sync_logs)
       /\ worker[w].pc \in {"failed", "done"} => worker'[w] = worker[w]
       /\ LocaleEnds(w) =>
            IF worker[w].idx < Len(WorkerLocales(w))
            THEN worker'[w].pc = "merge" /\ worker'[w].idx = worker[w].idx + 1
            ELSE worker'[w].pc = "finish"
  /\ \A r \in DOMAIN repo_sync_logs :
       repo_sync_logs'[r].end_time # repo_sync_logs[r].end_time =>
         \E w \in WorkerIds : /\ worker[w].repo_sync_log = r
                              /\ worker[w].pc = "finish"
                              /\ worker'[w].pc = "done"

\* C10: an error other than CommitToRepositoryException in locale k ends the
\* task there: the locale's transaction is rolled back, no later locale is
\* processed and the RepositorySyncLog keeps end_time NULL for good; a task
\* that meets no such error goes through every locale of the repository and
\* then records end_time.
C10_UnclassifiedErrorIsFatal == [](WorkerEndStates) /\ [][WorkerFailureSteps]_vars

\* the task failed in the first of its two locales; its log stays open
C10_Witness ==
  \E w \in WorkerIds :
    /\ worker[w].pc = "failed" /\ worker[w].error = "Exception"
    /\ worker[w].idx = 1
    /\ repo_sync_logs[worker[w].repo_sync_log].repository = 1
    /\ repo_sync_logs[worker[w].repo_sync_log].end_time = NULL
    /\ locks = {}

CoordinatorLookupFails ==
  \A c \in CoordIds :
    (coord[c].pc = "start" /\ coord'[c].pc # "start"
       /\ (coord[c].project_pk \notin Projects \/ coord[c].sync_log_pk \notin SyncLogs))
      => /\ coord'[c].pc = "failed" /\ coord'[c].error = "DoesNotExist"
         /\ coord'[c].project_sync_log = 0
         /\ ~coord'[c].pulled
         /\ CoordKey(c) \notin locks'
         /\ UNCHANGED <<project_sync_logs, repo_sync_logs, msgs, worker>>
         /\ DatabaseUnchanged

WorkerLookupFails ==
  \A w \in WorkerIds :
    (worker[w].pc = "start" /\ worker'[w].pc # "start"
       /\ (\/ worker[w].project_pk \notin Projects
           \/ worker[w].repo_pk \notin Repositories
           \/ worker[w].project_sync_log_pk \notin DOMAIN project_sync_logs))
      => /\ worker'[w].pc = "failed" /\ worker'[w].error = "DoesNotExist"
         /\ worker'[w].repo_sync_log = 0
         /\ worker'[w].tx = NoTx /\ worker'[w].idx = 0
         /\ WorkerKey(w) \notin locks'
         /\ UNCHANGED <<project_sync_logs, repo_sync_logs, msgs, coord>>
         /\ DatabaseUnchanged

FailedLookupIsFinal ==
  /\ \A c \in CoordIds : coord[c].pc = "failed" => coord'[c] = coord[c]
  /\ \A w \in WorkerIds :
       (worker[w].pc = "failed" /\ worker[w].error = "DoesNotExist")
         => worker'[w] = worker[w]

\* C11: sync_project given a project or a run that does not exist raises
\* DoesNotExist and does nothing: no ProjectSyncLog, no pull, no merge, no
\* message; sync_project_repo given a project, repository or ProjectSyncLog
\* that does not exist raises DoesNotExist with no RepositorySyncLog created
\* and no transaction opened.  A task that failed so takes no further step.
C11_NotFoundHasNoEffect ==
  [][CoordinatorLookupFails /\ WorkerLookupFails /\ FailedLookupIsFinal]_vars

\* sync_project failed on a missing run, the sync_project_repo calls on a
\* missing project, repository or ProjectSyncLog
C11_Witness ==
  /\ coord[1].pc = "failed" /\ coord[1].error = "DoesNotExist"
  /\ project_sync_logs = <<>> /\ repo_sync_logs = <<>> /\ msgs = <<>>
  /\ \A w \in WorkerIds : worker[w].pc = "failed" /\ worker[w].error = "DoesNotExist"
  /\ locks = {}

\* every held key has a holder that is still in its body
LockHeldOnlyInBody ==
  \A key \in locks :
    \/ \E c \in CoordIds : InBody(c) /\ CoordKey(c) = key
    \/ \E w \in WorkerIds : InWorkerBody(w) /\ WorkerKey(w) = key

\* no task is waiting for a key or inside its body; a task leaves "waiting"
\* only by acquiring its key and leaves its body only by ending
Quiescent ==
  /\ \A c \in CoordIds : coord[c].pc # "waiting" /\ ~InBody(c)
  /\ \A w \in WorkerIds : worker[w].pc # "waiting" /\ ~InWorkerBody(w)

WaitingEventuallyRuns == []<>Quiescent

\* C12: the lock of a task is released on every way out of its body (return,
\* skip, DoesNotExist, propagated exception): a held key always has a holder
\* still in its body, and under fair scheduling every task waiting for a key
\* acquires it, runs and ends.
C12_LocksAreReleased == [](LockHeldOnlyInBody) /\ WaitingEventuallyRuns

\* both invocations of project 1 ended, one of them by DoesNotExist, and a
\* worker ended by a propagated exception; no key is held
C12_Witness ==
  /\ \A c \in CoordIds : coord[c].pc \in {"done", "failed"}
  /\ \E c \in CoordIds : coord[c].pc = "failed"
  /\ \E c \in CoordIds : coord[c].pc = "done"
  /\ \E w \in WorkerIds : worker[w].pc = "failed" /\ worker[w].error = "Exception"
  /\ \E w \in WorkerIds : worker[w].pc = "done"
  /\ locks = {}

\* the step that runs lines 161-162 and leaves the atomic block
LeavesAtomicBlock(w) == worker[w].pc = "commit" /\ worker'[w].pc # "commit"

\* commit_changes was called in that step: it returned, raised
\* CommitToRepositoryException, or raised something else out of the task
WriteBackInvoked(w) == worker'[w].write_back # "none" \/ worker'[w].pc = "failed"

\* C13: commit_changes is called for a locale exactly when no_commit is
\* unset and the locale is in changeset.locales_to_commit, and nowhere else
\* in the task; with no_commit set it is never called and the locale's
\* transaction commits its rows, marker deletions and the cleared flag.
C13_WriteBackGuard ==
  [][\A w \in WorkerIds :
       /\ LeavesAtomicBlock(w) =>
            /\ WriteBackInvoked(w) <=> (~worker[w].no_commit /\ worker[w].tx.to_commit)
            /\ worker[w].no_commit =>
                 /\ worker'[w].write_back = "none"
                 /\ LocaleCommitted(w)
                 /\ translations' = TxView(w)
                 /\ markers' = markers \ MarkersToDelete(worker[w].project_pk,
                                                         WorkerLocale(w), worker[w].now)
                 /\ ~has_changed'[worker[w].project_pk]
       /\ ~LeavesAtomicBlock(w) => worker'[w].write_back \in {"none", worker[w].write_back}
    ]_vars

\* a worker with no_commit set is through both locales with an approval
\* persisted in each and no write-back
C13_Witness ==
  \E w \in WorkerIds :
    /\ worker[w].pc = "finish" /\ worker[w].no_commit
    /\ worker[w].write_back = "none"
    /\ translations[1].approved /\ translations[3].approved
    /\ markers = {} /\ ~has_changed[1]

\* C14 (as claimed): a ProjectSyncLog owns at most one RepositorySyncLog per
\* repository, whatever sync_project and sync_project_repo invocations ran,
\* deliveries of the same message twice included.
C14_OneRepositoryLogPerRepository ==
  \A r1 \in DOMAIN repo_sync_logs, r2 \in DOMAIN repo_sync_logs :
    (/\ repo_sync_logs[r1].project_sync_log = repo_sync_logs[r2].project_sync_log
     /\ repo_sync_logs[r1].repository = repo_sync_logs[r2].repository)
      => r1 = r2

ProjectSyncLogSealed(i) ==
  /\ project_sync_logs'[i].sync_log = project_sync_logs[i].sync_log
  /\ project_sync_logs'[i].project = project_sync_logs[i].project
  /\ project_sync_logs'[i].start_time = project_sync_logs[i].start_time
  /\ (\/ project_sync_logs[i].skipped
      \/ project_sync_logs[i].skipped_end_time # NULL
      \/ project_sync_logs[i].end_time # NULL)
       => project_sync_logs'[i] = project_sync_logs[i]

RepositorySyncLogSealed(r) ==
  /\ repo_sync_logs'[r].project_sync_log = repo_sync_logs[r].project_sync_log
  /\ repo_sync_logs'[r].repository = repo_sync_logs[r].repository
  /\ repo_sync_logs'[r].start_time = repo_sync_logs[r].start_time
  /\ repo_sync_logs[r].end_time # NULL => repo_sync_logs'[r] = repo_sync_logs[r]

\* C15: no ProjectSyncLog or RepositorySyncLog is ever deleted; its owner,
\* its subject and its start_time never change; and once end_time, or
\* skipped with skipped_end_time, is written the record never changes again.
C15_LedgerIsWriteOnce ==
  [][/\ DOMAIN project_sync_logs \subseteq DOMAIN project_sync_logs'
     /\ DOMAIN repo_sync_logs \subseteq DOMAIN repo_sync_logs'
     /\ \A i \in DOMAIN project_sync_logs : ProjectSyncLogSealed(i)
     /\ \A r \in DOMAIN repo_sync_logs : RepositorySyncLogSealed(r)
    ]_vars

\* a run whose worker closed its RepositorySyncLog after both locales, and
\* a later run that was skipped
C15_Witness ==
  /\ Len(project_sync_logs) = 2
  /\ ~project_sync_logs[1].skipped /\ project_sync_logs[2].skipped
  /\ \E r \in DOMAIN repo_sync_logs :
       /\ repo_sync_logs[r].repository = 1
       /\ repo_sync_logs[r].end_time # NULL
       /\ repo_sync_logs[r].end_time > repo_sync_logs[r].start_time

\* C16 (as claimed): when the sync_project invocation that created a
\* ProjectSyncLog has returned, the record has its end_time set, or is
\* marked skipped with its skipped_end_time.
C16_ProjectSyncLogClosed ==
  \A c \in CoordIds :
    (coord[c].pc = "done" /\ coord[c].project_sync_log # 0) =>
      LET log == project_sync_logs[coord[c].project_sync_log]
      IN \/ log.end_time # NULL
         \/ log.skipped /\ log.skipped_end_time # NULL

\* the step in which w, its rows found, meets a repository without locales
StartsOnEmptyRepository(w) ==
  /\ worker[w].pc = "start" /\ worker'[w].pc # "start"
  /\ worker[w].project_pk \in Projects
  /\ worker[w].repo_pk \in Repositories
  /\ worker[w].project_sync_log_pk \in DOMAIN project_sync_logs
  /\ Len(RepoLocales(worker[w].repo_pk)) = 0

\* C17: sync_project_repo on a repository with no locales creates its
\* RepositorySyncLog, sets its end_time and returns without error: no
\* transaction, no merge, no write-back, and every Translation, Dirty
\* Marker and the dirty flag as before; the task takes no step after that.
C17_EmptyRepositoryIsNoOp ==
  [][\A w \in WorkerIds :
       /\ StartsOnEmptyRepository(w) =>
            /\ worker'[w].pc = "done" /\ worker'[w].error = "none"
            /\ worker'[w].tx = NoTx /\ worker'[w].write_back = "none"
            /\ worker'[w].idx = 0
            /\ Len(repo_sync_logs') = Len(repo_sync_logs) + 1
            /\ worker'[w].repo_sync_log = Len(repo_sync_logs')
            /\ LET log == repo_sync_logs'[Len(repo_sync_logs')]
               IN /\ log.project_sync_log = worker[w].project_sync_log_pk
                  /\ log.repository = worker[w].repo_pk
                  /\ log.end_time # NULL
            /\ \A r \in DOMAIN repo_sync_logs : repo_sync_logs'[r] = repo_sync_logs[r]
            /\ WorkerKey(w) \notin locks'
            /\ DatabaseUnchanged
            /\ UNCHANGED <<msgs, project_sync_logs, coord>>
       /\ worker[w].pc = "done" => worker'[w] = worker[w]
    ]_vars

\* the message for repository 2, which has no locales, was processed
C17_Witness ==
  \E w \in WorkerIds :
    /\ worker[w].pc = "done" /\ worker[w].idx = 0
    /\ repo_sync_logs[worker[w].repo_sync_log].repository = 2
    /\ repo_sync_logs[worker[w].repo_sync_log].end_time # NULL

\* w is between the opening and the end of a locale's atomic block
InLocaleTransaction(w) == worker[w].pc \in {"clear", "cleanup", "commit"}

\* C18 (as claimed): no sync_project invocation is at perform_sync_project
\* for a project while a sync_project_repo invocation of the same project,
\* sent by an earlier sync_project invocation, is inside a locale's
\* transaction.
C18_MergesAreSequential ==
  \A c \in CoordIds, w \in WorkerIds :
    ~(/\ coord[c].pc = "sync"
      /\ InLocaleTransaction(w)
      /\ worker[w].project_pk = coord[c].project_pk
      /\ worker[w].project_sync_log_pk # coord[c].project_sync_log)

\* the order claimed for the database operations of one locale
ClaimedOrder ==
  <<"update_translations", "execute", "update_project_stats",
    "delete_markers", "clear_flag", "cleanup">>

IsPrefix(s, t) == Len(s) <= Len(t) /\ s = SubSeq(t, 1, Len(s))

OperationsInOrder ==
  \A w \in WorkerIds :
    /\ IsPrefix(worker[w].tx.ops, ClaimedOrder)
    /\ worker[w].pc = "commit" => worker[w].tx.ops = ClaimedOrder
    /\ worker[w].write_back # "none" => worker[w].tx = NoTx

WriteBackIsLast ==
  \A w \in WorkerIds :
    /\ worker'[w].write_back \notin {"none", worker[w].write_back}
         => LeavesAtomicBlock(w)
    /\ LeavesAtomicBlock(w) =>
         /\ worker[w].tx.ops = ClaimedOrder
         /\ worker'[w].tx = NoTx
         /\ translations' \in {translations, TxView(w)}
         /\ markers' \in {markers, markers \ worker[w].tx.deleted}

\* C19: in each locale's transaction the operations run in the order
\* update_translations, changeset.execute, update_project_stats, the
\* ChangedEntityLocale delete, has_changed = False, the duplicate-approval
\* UPDATE; commit_changes, when called, comes after the UPDATE and nothing
\* of the transaction follows it but its end.
C19_TransactionStepOrder == [](OperationsInOrder) /\ [][WriteBackIsLast]_vars

\* the last locale's block ran its operations, wrote back and committed
C19_Witness ==
  \E w \in WorkerIds :
    /\ worker[w].pc = "finish" /\ worker[w].idx = 2
    /\ worker[w].write_back = "returned"
    /\ worker[w].tx = NoTx
    /\ translations[3].approved

\* C20: when commit_changes has returned for a locale, that locale's
\* transaction commits (rows, marker deletions, cleared flag); when the
\* locale's transaction is rolled back, commit_changes did not return; and
\* each locale's block, hence its write-back, is run at most once per task.
C20_WriteBackAndCommitAgree ==
  [][\A w \in WorkerIds :
       LeavesAtomicBlock(w) =>
         /\ worker'[w].write_back = "returned" =>
              /\ LocaleCommitted(w)
              /\ translations' = TxView(w)
              /\ markers' = markers \ worker[w].tx.deleted
              /\ ~has_changed'[worker[w].project_pk]
         /\ (LocaleFailed(w) \/ worker'[w].pc = "failed") =>
              /\ worker'[w].write_back # "returned"
              /\ DatabaseUnchanged
         /\ worker'[w].pc = "merge" => worker'[w].idx = worker[w].idx + 1
         /\ worker'[w].pc = "finish" => worker[w].idx = Len(WorkerLocales(w))
    ]_vars

\* locale A was written back and committed with its approval, locale B's
\* write-back raised and B's transaction was rolled back
C20_Witness ==
  \E w \in WorkerIds :
    /\ worker[w].pc = "finish"
    /\ worker[w].failed_locales = {"B"}
    /\ worker[w].write_back = "raised"
    /\ translations[1].approved /\ ~translations[3].approved
    /\ \E m \in markers : m.locale = "B" /\ m.when <= worker[w].now
    /\ ~\E m \in markers : m.locale = "A"

====
